---- MODULE Spec2Model ----
(***************************************************************************)
(* Model of the shallowcopy generator (gen.go): the eligibility classifier *)
(* shouldBeCopied / hasShallowCopyMethod, and Generator.Generate with its  *)
(* per-package loop, the EachType callback, the jennifer rendering, gofmt  *)
(* and writeOut.                                                           *)
(*                                                                         *)
(* go/types values are tagged records; identifiers are sequences of        *)
(* one-character strings so that ast.IsExported and the byte-wise sort of  *)
(* the rendered Dict keys are computed, not assumed.                       *)
(***************************************************************************)
EXTENDS Integers, Sequences, FiniteSets, TLC

VARIABLES
  nroots,   \* len(ctx.Roots)
  r,        \* index of the package the loop of Generate is at (0: none yet)
  pc,       \* "Loop": top of the for; "EachType": inside it; "Done": returned
  decls,    \* the declarations EachType has handed to the callback, this package
  ndecls,   \* how many declarations were visited in the whole run
  structs,  \* var structs []copyStructs of the current iteration
  errors,   \* per package, the errors added with root.AddError
  files,    \* per package, zz_generated.shallowcopy.go: <<>> or <<contents>>
  probe,    \* the declaration shouldBeCopied was last asked about
  verdict   \* what it returned: <<>> when not called, else <<[result, errs]>>

vars == <<nroots, r, pc, decls, ndecls, structs, errors, files, probe, verdict>>

genVars == <<nroots, r, pc, decls, ndecls, structs, errors, files>>

\* ---------------------------------------------------------------- bounds

\* Largest len(ctx.Roots) explored.
MaxRoots == 2

\* Largest number of type declarations EachType delivers over a whole run
\* (ndecls counts them).
MaxDecls == 2

\* ----------------------------------------------------------- identifiers

Alphabet ==
  <<"A","B","C","D","E","F","G","H","I","J","K","L","M",
    "N","O","P","Q","R","S","T","U","V","W","X","Y","Z",
    "a","b","c","d","e","f","g","h","i","j","k","l","m",
    "n","o","p","q","r","s","t","u","v","w","x","y","z">>

\* Byte order of a letter: upper case sorts before lower case, as in ASCII.
Code(c) == CHOOSE i \in 1..Len(Alphabet) : Alphabet[i] = c

UpperCase == {Alphabet[i] : i \in 1..26}

\* ast.IsExported: the name begins with an upper-case letter.
IsExported(name) == Len(name) > 0 /\ name[1] \in UpperCase

\* Go string comparison a < b (bytewise, a proper prefix is smaller).
RECURSIVE StrLess(_, _)
StrLess(a, b) ==
  IF Len(b) = 0 THEN FALSE
  ELSE IF Len(a) = 0 THEN TRUE
  ELSE IF Code(a[1]) < Code(b[1]) THEN TRUE
  ELSE IF Code(a[1]) > Code(b[1]) THEN FALSE
  ELSE StrLess(Tail(a), Tail(b))

\* ---------------------------------------------------------------- go/types

\* A method signature; NoMethod when the type declares no ShallowCopy.
NoMethod == [declared |-> FALSE, params |-> 0, results |-> 0]

Sig(p, n) == [declared |-> TRUE, params |-> p, results |-> n]

\* types.Typ[types.Invalid] and an ordinary basic type.
Invalid == [tag |-> "Basic", invalid |-> TRUE]

Basic == [tag |-> "Basic", invalid |-> FALSE]

MapT == [tag |-> "Map"]

\* A struct type: its field names in declaration order, and the ShallowCopy
\* member (if any) that an embedded field promotes.
Struct(fields, promoted) ==
  [tag |-> "Struct", fields |-> fields, promoted |-> promoted]

Pointer(elem) == [tag |-> "Pointer", elem |-> elem]

\* A defined type: its name, its underlying type and the ShallowCopy method
\* declared on it.
Named(name, under, method) ==
  [tag |-> "Named", name |-> name, under |-> under, method |-> method]

\* types.Type.Underlying: a Named type's underlying type, else the type itself.
Underlying(t) == IF t.tag = "Named" THEN t.under ELSE t

\* A markers.TypeInfo: the declared name, the value of the
\* shallowcopy:generate marker and what TypesInfo.TypeOf gives for the name.
TypeInfo(name, marker, typ) == [Name |-> name, marker |-> marker, typ |-> typ]

TypeOf(info) == info.typ

\* loader.ErrFromNode(fmt.Errorf(...)): an error naming a declaration; text is
\* the generated source carried by the error, none for every error of gen.go.
Err(kind, name) == [kind |-> kind, name |-> name, text |-> <<>>]

\* ------------------------------------------------------- enabledOnType

\* The marker is "absent" (Markers.Get gives nil), "true" or "false".
enabledOnType(info) == IF info.marker # "absent" THEN info.marker = "true" ELSE FALSE

\* ------------------------------------------------ hasShallowCopyMethod

NotFound == [found |-> FALSE, ind |-> 0, sig |-> NoMethod]

\* Lookup of ShallowCopy on a defined type that is no pointer: its own method
\* (index of length 1), else the one an embedded field promotes (length 2).
LookupNamed(t) ==
  IF t.method.declared THEN [found |-> TRUE, ind |-> 1, sig |-> t.method]
  ELSE IF t.under.tag = "Struct" /\ t.under.promoted.declared
       THEN [found |-> TRUE, ind |-> 2, sig |-> t.under.promoted]
       ELSE NotFound

\* types.LookupFieldOrMethod(typeInfo, true, pkg.Types, "ShallowCopy"): the
\* object found and the length of its index path.  A defined pointer type has
\* no methods (a method found through it is discarded); a pointer to a defined
\* type reaches that type's methods.
LookupFieldOrMethod(t) ==
  CASE t.tag = "Named" ->
         IF t.under.tag = "Pointer" THEN NotFound ELSE LookupNamed(t)
    [] t.tag = "Pointer" ->
         IF t.elem.tag = "Named" /\ t.elem.under.tag # "Pointer"
         THEN LookupNamed(t.elem)
         ELSE IF t.elem.tag = "Struct" /\ t.elem.promoted.declared
              THEN [found |-> TRUE, ind |-> 2, sig |-> t.elem.promoted]
              ELSE NotFound
    [] t.tag = "Struct" ->
         IF t.promoted.declared
         THEN [found |-> TRUE, ind |-> 2, sig |-> t.promoted]
         ELSE NotFound
    [] OTHER -> NotFound

hasShallowCopyMethod(typeInfo) ==
  LET l == LookupFieldOrMethod(typeInfo) IN
  IF l.ind # 1 THEN FALSE                 \* ignore embedded methods
  ELSE IF ~l.found THEN FALSE
  ELSE IF l.sig.params # 0 THEN FALSE
  ELSE IF l.sig.results # 1 THEN FALSE
  ELSE TRUE

\* ------------------------------------------------------ shouldBeCopied

\* The pointer swap taking the pointee instead of the pointer.
WorkingTypeElem(typeInfo) ==
  IF typeInfo.under.tag = "Pointer" THEN typeInfo.under.elem ELSE typeInfo

\* if asPtr, isPtr := typeInfo.(*types.Named).Underlying().(*types.Pointer);
\* isPtr { typeInfo = asPtr }
WorkingType(typeInfo) ==
  IF typeInfo.under.tag = "Pointer" THEN typeInfo.under ELSE typeInfo

\* The for loop over the underlying chain: "returned" when the body returned
\* true, else the lastType the loop ended with.
RECURSIVE WalkUnderlying(_, _)
WalkUnderlying(lastType, underlyingType) ==
  IF underlyingType = lastType
  THEN [returned |-> FALSE, lastType |-> lastType]
  ELSE IF hasShallowCopyMethod(underlyingType)
  THEN [returned |-> TRUE, lastType |-> lastType]
  ELSE IF underlyingType.tag # "Basic"
  THEN [returned |-> TRUE, lastType |-> lastType]
  ELSE WalkUnderlying(underlyingType, Underlying(underlyingType))

\* The classification of a resolved, exported declaration.
ClassifyResolved(declared) ==
  LET typeInfo == WorkingType(declared) IN
  IF typeInfo.tag = "Named"
  THEN IF hasShallowCopyMethod(typeInfo) THEN TRUE
       ELSE LET w == WalkUnderlying(typeInfo, Underlying(typeInfo)) IN
            IF w.returned THEN TRUE ELSE w.lastType.tag = "Struct"
  ELSE typeInfo.tag = "Struct"

\* shouldBeCopied without the export gate.
shouldBeCopiedNoGate(info) ==
  IF TypeOf(info) = Invalid
  THEN [result |-> FALSE, errs |-> <<Err("unknown type", info.Name)>>]
  ELSE [result |-> ClassifyResolved(TypeOf(info)), errs |-> <<>>]

\* shouldBeCopied without the manual-method checks.
shouldBeCopiedNoManual(info) ==
  IF ~IsExported(info.Name) THEN [result |-> FALSE, errs |-> <<>>]
  ELSE IF TypeOf(info) = Invalid
  THEN [result |-> FALSE, errs |-> <<Err("unknown type", info.Name)>>]
  ELSE LET t == WorkingType(TypeOf(info)) IN
       [result |-> IF t.tag = "Named" THEN Underlying(t).tag # "Basic"
                   ELSE t.tag = "Struct",
        errs |-> <<>>]

\* shouldBeCopied(pkg, info): the verdict and the errors it adds to pkg.
shouldBeCopied(info) ==
  IF ~IsExported(info.Name) THEN [result |-> FALSE, errs |-> <<>>]
  ELSE IF TypeOf(info) = Invalid
  THEN [result |-> FALSE, errs |-> <<Err("unknown type", info.Name)>>]
  ELSE [result |-> ClassifyResolved(TypeOf(info)), errs |-> <<>>]

\* ------------------------------------------------- Generate: the callback

\* copyStructs{StructName, Fields}
copyStructs(name, fields) == [StructName |-> name, Fields |-> fields]

\* The field loop dropping the unexported fields.
FieldNamesExported(stype) ==
  SelectSeq(stype.fields, LAMBDA f : IsExported(f))

\* for i := 0; i < stype.NumFields(); i++ { append(data.Fields, field.Name()) }
FieldNames(stype) == [i \in 1..Len(stype.fields) |-> stype.fields[i]]

\* The callback whose not-a-struct branch returns without root.AddError.
CallbackSilent(info, ss, errs) ==
  IF ~enabledOnType(info) THEN [structs |-> ss, errors |-> errs, copied |-> <<>>]
  ELSE LET sc == shouldBeCopied(info) IN
       IF ~sc.result
       THEN [structs |-> ss, errors |-> errs \o sc.errs, copied |-> <<sc>>]
       ELSE IF Underlying(TypeOf(info)).tag # "Struct"
       THEN [structs |-> ss, errors |-> errs \o sc.errs, copied |-> <<sc>>]
       ELSE [structs |-> Append(ss, copyStructs(info.Name,
                                   FieldNames(Underlying(TypeOf(info))))),
             errors |-> errs \o sc.errs, copied |-> <<sc>>]

\* The function Generate hands to markers.EachType, applied to one
\* declaration: the package's structs and errors after it, and what
\* shouldBeCopied returned if it was called.
Callback(info, ss, errs) ==
  IF ~enabledOnType(info) THEN [structs |-> ss, errors |-> errs, copied |-> <<>>]
  ELSE LET sc == shouldBeCopied(info) IN
       IF ~sc.result
       THEN [structs |-> ss, errors |-> errs \o sc.errs, copied |-> <<sc>>]
       ELSE LET typeInfo == TypeOf(info)
                e1 == IF typeInfo = Invalid
                      THEN errs \o sc.errs \o <<Err("unknown type", info.Name)>>
                      ELSE errs \o sc.errs
                stype == Underlying(typeInfo)
            IN IF stype.tag # "Struct"
               THEN [structs |-> ss,
                     errors |-> Append(e1, Err("not a struct type", info.Name)),
                     copied |-> <<sc>>]
               ELSE [structs |-> Append(ss, copyStructs(info.Name, FieldNames(stype))),
                     errors |-> e1,
                     copied |-> <<sc>>]

\* ------------------------------------------------- Generate: the emitter

\* jen.DictFunc: the map d after d[jen.Id(field)] = jen.Id("o").Dot(field)
\* for every field; a map keeps no insertion order.
Dict(fields) ==
  {[key |-> fields[i], value |-> <<"o", fields[i]>>] : i \in 1..Len(fields)}

\* The entry of a non-empty Dict with the smallest key.
MinEntry(d) == CHOOSE e \in d : \A f \in d : f = e \/ ~StrLess(f.key, e.key)

\* The rendering of a Dict (jen.Values(jen.Dict)): its entries by sorted key.
RECURSIVE DictSorted(_)
DictSorted(d) ==
  IF d = {} THEN <<>> ELSE <<MinEntry(d)>> \o DictSorted(d \ {MinEntry(d)})

\* A rendering that writes the entries in the order of the field list.
DictRenderInOrder(fields) ==
  [i \in 1..Len(fields) |-> [key |-> fields[i], value |-> <<"o", fields[i]>>]]

\* The composite literal of one method: the Dict of the fields, rendered.
DictRender(fields) == DictSorted(Dict(fields))

\* func (o S) ShallowCopy() S { return S{...} } for one copyStructs.
Method(s) ==
  [recv |-> s.StructName, params |-> 0, result |-> s.StructName,
   literal |-> DictRender(s.Fields)]

\* code.Render(&b): the text of the file, one method per entry of structs.
Render(root, ss) ==
  [pkg |-> root, formatted |-> FALSE,
   methods |-> [i \in 1..Len(ss) |-> Method(ss[i])]]

\* format.Source on text that parses: the same declarations, gofmt-ed.
FormatSource(text) == [text EXCEPT !.formatted = TRUE]

\* outputFile.Write writing the first n of the methods.
Written(text, n) == [text EXCEPT !.methods = SubSeq(text.methods, 1, n)]

\* The guard of the emission dropped: a file for every package.
HasStructsAlways(ss) == Len(ss) >= 0

\* if len(structs) > 0
HasStructs(ss) == Len(ss) > 0

\* ------------------------------------------------------------- the inputs

\* Field names; "b" before "A" is a declaration order that is not sorted.
FieldLists ==
  { << <<"I","D">>, <<"N","a","m","e">> >>,
    << <<"b">>, <<"A">> >> }

\* The declarations a package under generation is drawn from: each is a
\* non-alias type declaration with its marker, and no two share a name.
Declarations ==
  { \* type User struct{ID; Name}, annotated
    TypeInfo(<<"U","s","e","r">>, "true",
      Named(<<"U","s","e","r">>,
            Struct(<< <<"I","D">>, <<"N","a","m","e">> >>, NoMethod), NoMethod)),
    \* type Pair struct{b; A}, annotated
    TypeInfo(<<"P","a","i","r">>, "true",
      Named(<<"P","a","i","r">>, Struct(<< <<"b">>, <<"A">> >>, NoMethod), NoMethod)),
    \* type Handle struct{conn} with func (h Handle) ShallowCopy() Handle
    TypeInfo(<<"H","a","n","d","l","e">>, "true",
      Named(<<"H","a","n","d","l","e">>,
            Struct(<< <<"c","o","n","n">> >>, NoMethod), Sig(0, 1))),
    \* type Wrapped struct{Handle; n}: ShallowCopy promoted from the embedded field
    TypeInfo(<<"W","r","a","p">>, "true",
      Named(<<"W","r","a","p">>,
            Struct(<< <<"H","a","n","d","l","e">>, <<"n">> >>, Sig(0, 1)), NoMethod)),
    \* type acct struct{ID}, annotated but unexported
    TypeInfo(<<"a","c","c","t">>, "true",
      Named(<<"a","c","c","t">>, Struct(<< <<"I","D">> >>, NoMethod), NoMethod)),
    \* type tally int with a manual ShallowCopy, annotated but unexported
    TypeInfo(<<"t","a","l","l","y">>, "true",
      Named(<<"t","a","l","l","y">>, Basic, Sig(0, 1))),
    \* type MyInt int, annotated
    TypeInfo(<<"M","y","I","n","t">>, "true",
      Named(<<"M","y","I","n","t">>, Basic, NoMethod)),
    \* type Count int with func (c Count) ShallowCopy() Count, annotated
    TypeInfo(<<"C","o","u","n","t">>, "true",
      Named(<<"C","o","u","n","t">>, Basic, Sig(0, 1))),
    \* type Index map[string]int, annotated
    TypeInfo(<<"I","n","d","e","x">>, "true",
      Named(<<"I","n","d","e","x">>, MapT, NoMethod)),
    \* type UserPtr *User, annotated
    TypeInfo(<<"U","s","e","r","P","t","r">>, "true",
      Named(<<"U","s","e","r","P","t","r">>,
            Pointer(Named(<<"U","s","e","r">>,
                          Struct(<< <<"I","D">>, <<"N","a","m","e">> >>, NoMethod),
                          NoMethod)),
            NoMethod)),
    \* type Plain struct{ID}, marker set to false
    TypeInfo(<<"P","l","a","i","n">>, "false",
      Named(<<"P","l","a","i","n">>, Struct(<< <<"I","D">> >>, NoMethod), NoMethod)),
    \* type Bad Missing: the checker could not resolve it
    TypeInfo(<<"B","a","d">>, "true", Invalid) }

\* The declarations shouldBeCopied is applied to on its own: every shape of
\* name, marker, underlying type and ShallowCopy signature.
Sigs == {NoMethod, Sig(0, 1), Sig(1, 1), Sig(0, 0), Sig(0, 2)}

Structs == {Struct(f, p) : f \in FieldLists, p \in {NoMethod, Sig(0, 1)}}

TypeNames == { <<"T">>, <<"t">> }

BaseNamed ==
  {Named(n, u, m) : n \in TypeNames, u \in Structs \cup {Basic, MapT}, m \in Sigs}

\* A defined pointer type declares no methods (Go rejects the receiver).
PointerNamed ==
  {Named(n, Pointer(e), NoMethod) :
     n \in { <<"P">>, <<"p">> }, e \in BaseNamed \cup Structs \cup {Basic}}

TypeUniverse ==
  {TypeInfo(t.name, m, t) :
     t \in BaseNamed \cup PointerNamed, m \in {"absent", "true", "false"}}
  \cup {TypeInfo(n, "true", Invalid) : n \in TypeNames}

\* ------------------------------------------------------------------ state

\* root.AddError(e) on the package at index i.
AddError(errs, i, e) == [errs EXCEPT ![i] = Append(@, e)]

Names(ds) == {ds[i].Name : i \in 1..Len(ds)}

InitGenerate ==
  /\ nroots \in 0..MaxRoots
  /\ r = 0
  /\ pc = "Loop"
  /\ decls = <<>>
  /\ ndecls = 0
  /\ structs = <<>>
  /\ errors = [i \in 1..nroots |-> <<>>]
  /\ files = [i \in 1..nroots |-> <<>>]

Init == InitGenerate /\ probe = <<>> /\ verdict = <<>>

\* for _, root := range ctx.Roots: the next package, type-checked, with an
\* empty structs.
BeginRoot ==
  /\ pc = "Loop" /\ r < nroots
  /\ r' = r + 1
  /\ pc' = "EachType"
  /\ decls' = <<>>
  /\ structs' = <<>>
  /\ probe' = <<>>
  /\ verdict' = <<>>
  /\ UNCHANGED <<nroots, ndecls, errors, files>>

\* The range is exhausted: return nil.
ReturnNil ==
  /\ pc = "Loop" /\ r = nroots
  /\ pc' = "Done"
  /\ UNCHANGED <<nroots, r, decls, ndecls, structs, errors, files, probe, verdict>>

\* markers.EachType fails collecting the package's markers, before any
\* declaration is visited: root.AddError(err); return nil.
EachTypeError ==
  /\ pc = "EachType" /\ decls = <<>>
  /\ errors' = AddError(errors, r, Err("markers", <<>>))
  /\ pc' = "Done"
  /\ UNCHANGED <<nroots, r, decls, ndecls, structs, files, probe, verdict>>

\* EachType calls the callback on the next declaration of the package.
VisitType(info) ==
  /\ pc = "EachType"
  /\ ndecls < MaxDecls
  /\ info.Name \notin Names(decls)
  /\ LET c == Callback(info, structs, errors[r]) IN
       /\ structs' = c.structs
       /\ errors' = [errors EXCEPT ![r] = c.errors]
       /\ verdict' = c.copied
  /\ probe' = <<info>>
  /\ decls' = Append(decls, info)
  /\ ndecls' = ndecls + 1
  /\ UNCHANGED <<nroots, r, pc, files>>

\* EachType returned nil and structs is empty: nothing is emitted.
SkipEmit ==
  /\ pc = "EachType" /\ ~HasStructs(structs)
  /\ pc' = "Loop"
  /\ UNCHANGED <<nroots, r, decls, ndecls, structs, errors, files, probe, verdict>>

\* code.Render fails: root.AddError(err); return nil.
RenderFails ==
  /\ pc = "EachType" /\ HasStructs(structs)
  /\ errors' = AddError(errors, r, Err("render", <<>>))
  /\ pc' = "Done"
  /\ UNCHANGED <<nroots, r, decls, ndecls, structs, files, probe, verdict>>

\* format.Source fails on the rendered text: root.AddError(err); return nil.
FormatFails ==
  /\ pc = "EachType" /\ HasStructs(structs)
  /\ errors' = AddError(errors, r, Err("format", <<>>))
  /\ pc' = "Done"
  /\ UNCHANGED <<nroots, r, decls, ndecls, structs, files, probe, verdict>>

\* writeOut: ctx.Open fails: root.AddError(err), and the loop goes on.
OpenFails ==
  /\ pc = "EachType" /\ HasStructs(structs)
  /\ errors' = AddError(errors, r, Err("open", <<>>))
  /\ pc' = "Loop"
  /\ UNCHANGED <<nroots, r, decls, ndecls, structs, files, probe, verdict>>

\* writeOut: the file is opened and Write returns (n, err).
WriteOut(n, failed) ==
  /\ pc = "EachType" /\ HasStructs(structs)
  /\ LET outContents == FormatSource(Render(r, structs)) IN
       /\ n \in 0..Len(outContents.methods)
       /\ files' = [files EXCEPT ![r] = <<Written(outContents, n)>>]
       /\ errors' = IF failed THEN AddError(errors, r, Err("write", <<>>))
                    ELSE IF n < Len(outContents.methods)
                    THEN AddError(errors, r, Err("short write", <<>>))
                    ELSE errors
  /\ pc' = "Loop"
  /\ UNCHANGED <<nroots, r, decls, ndecls, structs, probe, verdict>>

Next ==
  \/ BeginRoot
  \/ ReturnNil
  \/ EachTypeError
  \/ \E info \in Declarations : VisitType(info)
  \/ SkipEmit
  \/ RenderFails
  \/ FormatFails
  \/ OpenFails
  \/ \E n \in 0..MaxDecls, failed \in BOOLEAN : WriteOut(n, failed)

Spec == Init /\ [][Next]_vars

\* -------------------------------------------- shouldBeCopied on its own

InitClassify ==
  /\ nroots = 0 /\ r = 0 /\ pc = "Loop" /\ decls = <<>> /\ ndecls = 0
  /\ structs = <<>>
  /\ errors = <<>> /\ files = <<>>
  /\ probe = <<>> /\ verdict = <<>>

\* shouldBeCopied applied to one declaration.
Classify(info) ==
  /\ probe' = <<info>>
  /\ verdict' = <<shouldBeCopied(info)>>
  /\ UNCHANGED genVars

NextClassify == \E info \in TypeUniverse : Classify(info)

SpecClassify == InitClassify /\ [][NextClassify]_vars

\* ================================================================ claims

\* The package the loop is at has been through its emission.
Emitted == r >= 1 /\ pc \in {"Loop", "Done"}

\* The methods of the generated file of the current package.
FileMethods == IF r >= 1 /\ files[r] # <<>> THEN files[r][1].methods ELSE <<>>

\* d is a resolved declaration of a struct type.
IsStructDecl(d) == TypeOf(d) # Invalid /\ TypeOf(d).under.tag = "Struct"

\* The defined type t declares ShallowCopy itself, with no parameter and one result.
DeclaresManual(t) ==
  t.method.declared /\ t.method.params = 0 /\ t.method.results = 1

\* Some entry of structs, or some method of the file, is for the type named n.
GeneratedFor(n) ==
  \/ \E k \in 1..Len(structs) : structs[k].StructName = n
  \/ \E k \in 1..Len(FileMethods) : FileMethods[k].recv = n

\* An error naming the declaration n is recorded on the current package.
ErrorFor(n) == \E k \in 1..Len(errors[r]) : errors[r][k].name = n

\* The keys of a rendered literal, in the order they are written.
Keys(literal) == [i \in 1..Len(literal) |-> literal[i].key]

\* ---- C1
\* C1: no copyStructs entry and no generated method exists for an annotated,
\* exported struct type that already has a manual ShallowCopy method.
C1_NoDoubleGeneration ==
  \A i \in 1..Len(decls) :
    LET d == decls[i] IN
    (enabledOnType(d) /\ IsExported(d.Name) /\ IsStructDecl(d)
       /\ hasShallowCopyMethod(TypeOf(d)))
    => ~GeneratedFor(d.Name)

\* ---- C2
\* The probe is an exported defined type whose underlying type is a pointer.
ExportedPointerProbe ==
  /\ probe # <<>> /\ verdict # <<>>
  /\ IsExported(probe[1].Name)
  /\ TypeOf(probe[1]) # Invalid
  /\ TypeOf(probe[1]).under.tag = "Pointer"

\* The pointee of such a probe is a defined struct type.
PointeeIsNamedStruct ==
  LET S == TypeOf(probe[1]).under.elem IN
  S.tag = "Named" /\ S.under.tag = "Struct"

\* C2 as stated: shouldBeCopied(P) equals shouldBeCopied(S) for P a pointer to
\* the struct type S.
C2_PointerTransparency ==
  (ExportedPointerProbe /\ PointeeIsNamedStruct)
  => LET S == TypeOf(probe[1]).under.elem IN
     verdict[1].result = shouldBeCopied(TypeInfo(S.name, probe[1].marker, S)).result

\* C2 amended: shouldBeCopied of an exported defined pointer type is false and
\* adds no error, whatever the pointee is.
C2_PointerNotCopied ==
  ExportedPointerProbe => (verdict[1].result = FALSE /\ verdict[1].errs = <<>>)

\* An exported pointer to an exported struct type was classified ineligible.
C2_Witness ==
  /\ ExportedPointerProbe /\ PointeeIsNamedStruct
  /\ IsExported(TypeOf(probe[1]).under.elem.name)
  /\ verdict[1].result = FALSE

\* ---- C3
\* C3: when Generate has returned, every package of ctx.Roots was reached by
\* the loop, whatever failed in an earlier one.
C3_UnitIsolation == pc = "Done" => r = nroots

\* ---- C4
\* The file of the current package holds a method for each of the first
\* entries of structs.
FileFollowsStructs ==
  /\ Len(FileMethods) <= Len(structs)
  /\ \A k \in 1..Len(FileMethods) : FileMethods[k].recv = structs[k].StructName

\* C4 as stated: the keys of every emitted literal are in the order of
\* data.Fields, the declaration order.
C4_DeclarationOrder ==
  Emitted =>
    /\ FileFollowsStructs
    /\ \A k \in 1..Len(FileMethods) : Keys(FileMethods[k].literal) = structs[k].Fields

\* C4 amended: data.Fields is in declaration order, and the keys of every
\* emitted literal are the same names in ascending byte order.
C4_SortedKeyOrder ==
  /\ \A k \in 1..Len(structs) :
       \E i \in 1..Len(decls) :
         /\ decls[i].Name = structs[k].StructName
         /\ IsStructDecl(decls[i])
         /\ structs[k].Fields = TypeOf(decls[i]).under.fields
  /\ Emitted =>
       /\ FileFollowsStructs
       /\ \A k \in 1..Len(FileMethods) :
            LET ks == Keys(FileMethods[k].literal) IN
            /\ {ks[i] : i \in 1..Len(ks)}
                 = {structs[k].Fields[i] : i \in 1..Len(structs[k].Fields)}
            /\ \A i \in 1..(Len(ks) - 1) : StrLess(ks[i], ks[i + 1])

\* A method was written for a struct whose fields are not declared in sorted
\* order, and its keys are not in declaration order.
C4_Witness ==
  /\ Emitted
  /\ \E k \in 1..Len(FileMethods) :
       /\ \E i \in 1..(Len(structs[k].Fields) - 1) :
            StrLess(structs[k].Fields[i + 1], structs[k].Fields[i])
       /\ Keys(FileMethods[k].literal) # structs[k].Fields

\* ---- C5
\* C5: for an unexported type shouldBeCopied returned false, and Generate has
\* neither a copyStructs entry, nor a method, nor an error for it.
C5_VisibilityInvariant ==
  /\ (probe # <<>> /\ ~IsExported(probe[1].Name) /\ verdict # <<>>)
       => (verdict[1].result = FALSE /\ verdict[1].errs = <<>>)
  /\ \A i \in 1..Len(decls) :
       ~IsExported(decls[i].Name)
       => (~GeneratedFor(decls[i].Name) /\ ~ErrorFor(decls[i].Name))

\* An annotated, unexported struct type went through the callback and the
\* package's emission, with nothing generated for it.
C5_Witness ==
  /\ Emitted
  /\ \E i \in 1..Len(decls) :
       /\ ~IsExported(decls[i].Name) /\ enabledOnType(decls[i])
       /\ IsStructDecl(decls[i])
       /\ ~GeneratedFor(decls[i].Name)

\* ---- C6
\* The probe is exported and resolved.
ExportedResolvedProbe ==
  /\ probe # <<>> /\ verdict # <<>>
  /\ IsExported(probe[1].Name)
  /\ TypeOf(probe[1]) # Invalid

\* C6 as stated: if the type or a type of its underlying chain has a depth-1
\* ShallowCopy with no parameter and one result, shouldBeCopied returns true.
C6_ManualOverride ==
  (ExportedResolvedProbe
     /\ (hasShallowCopyMethod(TypeOf(probe[1]))
           \/ hasShallowCopyMethod(Underlying(TypeOf(probe[1])))))
  => verdict[1].result = TRUE

\* C6 amended: the same for every type whose underlying type is not a pointer.
C6_ManualOverrideNoPointer ==
  (ExportedResolvedProbe
     /\ TypeOf(probe[1]).under.tag # "Pointer"
     /\ DeclaresManual(TypeOf(probe[1])))
  => verdict[1].result = TRUE

\* An exported non-struct type with a manual ShallowCopy was classified eligible.
C6_Witness ==
  /\ ExportedResolvedProbe
  /\ TypeOf(probe[1]).under.tag = "Basic"
  /\ DeclaresManual(TypeOf(probe[1]))
  /\ verdict[1].result = TRUE

\* ---- C7
\* C7: every generated method is for a struct declaration of the package, its
\* literal has exactly one key per declared field, exported or not, and every
\* key f is set from o.f.
C7_FieldCompleteness ==
  \A k \in 1..Len(FileMethods) :
    LET m == FileMethods[k] IN
    \E i \in 1..Len(decls) :
      /\ decls[i].Name = m.recv
      /\ m.result = m.recv
      /\ IsStructDecl(decls[i])
      /\ LET fs == TypeOf(decls[i]).under.fields IN
           /\ Len(m.literal) = Len(fs)
           /\ \A j \in 1..Len(fs) :
                Cardinality({n \in 1..Len(m.literal) : m.literal[n].key = fs[j]}) = 1
           /\ \A n \in 1..Len(m.literal) :
                m.literal[n].value = <<"o", m.literal[n].key>>

\* A method was written for a struct that declares an unexported field.
C7_Witness ==
  /\ Emitted
  /\ \E k \in 1..Len(FileMethods) :
       \E n \in 1..Len(FileMethods[k].literal) :
         ~IsExported(FileMethods[k].literal[n].key)

\* ---- C8
\* d is annotated with the marker set to true and resolves to a non-struct type.
AnnotatedNonStruct(d) ==
  enabledOnType(d) /\ TypeOf(d) # Invalid /\ TypeOf(d).under.tag # "Struct"

\* The "... is not a struct type" error is recorded for the declaration n.
NotAStructErrorFor(n) ==
  \E k \in 1..Len(errors[r]) :
    errors[r][k].kind = "not a struct type" /\ errors[r][k].name = n

\* Every annotated, exported struct declaration visited after position i has
\* its copyStructs entry.
RestProcessed(i) ==
  \A j \in (i + 1)..Len(decls) :
    (enabledOnType(decls[j]) /\ IsExported(decls[j].Name) /\ IsStructDecl(decls[j]))
    => \E k \in 1..Len(structs) : structs[k].StructName = decls[j].Name

\* C8 as stated: every annotated type whose underlying type is not a struct
\* gets an error, no method, and the rest of the package is processed.
C8_NonStructReported ==
  \A i \in 1..Len(decls) :
    AnnotatedNonStruct(decls[i])
    => /\ ErrorFor(decls[i].Name)
       /\ ~GeneratedFor(decls[i].Name)
       /\ RestProcessed(i)

\* C8 amended: an exported annotated non-struct type gets the error exactly
\* when its underlying type is neither basic nor a pointer, or is basic with a
\* manual ShallowCopy; a basic type without one and a defined pointer type
\* are skipped with no error.  No method is generated for any of them and the
\* rest of the package is processed.
C8_NonStructReportedUnlessBasicOrPointer ==
  \A i \in 1..Len(decls) :
    LET d == decls[i] IN
    (AnnotatedNonStruct(d) /\ IsExported(d.Name))
    => /\ NotAStructErrorFor(d.Name)
            <=> \/ TypeOf(d).under.tag \notin {"Basic", "Pointer"}
                \/ (TypeOf(d).under.tag = "Basic" /\ DeclaresManual(TypeOf(d)))
       /\ ~GeneratedFor(d.Name)
       /\ RestProcessed(i)

\* An annotated map type was reported and a struct declared after it in the
\* same package was still collected.
C8_Witness ==
  \E i \in 1..Len(decls) :
    /\ AnnotatedNonStruct(decls[i]) /\ IsExported(decls[i].Name)
    /\ TypeOf(decls[i]).under.tag = "Map"
    /\ NotAStructErrorFor(decls[i].Name)
    /\ \E j \in (i + 1)..Len(decls) :
         \E k \in 1..Len(structs) : structs[k].StructName = decls[j].Name

\* ---- C9
\* ctx.Open was called for package i: the file exists or the open error does.
Opened(i) ==
  \/ files[i] # <<>>
  \/ \E k \in 1..Len(errors[i]) : errors[i][k].kind = "open"

\* C9: the output file of a package is opened only once its classification is
\* over and only if at least one copy specification was collected for it.
C9_EmptyUnitSuppression ==
  \A i \in 1..nroots :
    Opened(i) => /\ i <= r
                 /\ (i = r => (pc # "EachType" /\ Len(structs) > 0))

\* A package with declarations but no copy specification was finished, and
\* has no file.
C9_Witness ==
  /\ r >= 1 /\ pc = "Loop"
  /\ Len(decls) > 0 /\ structs = <<>>
  /\ ~Opened(r)

\* ---- C10
\* C10: a package whose rendered text failed to format has that text in a
\* recorded error or in its output file.
C10_RawTextKept ==
  \A i \in 1..nroots :
    (\E k \in 1..Len(errors[i]) : errors[i][k].kind = "format")
    => \/ \E k \in 1..Len(errors[i]) : errors[i][k].text # <<>>
       \/ files[i] # <<>>

====
